---- MODULE Spec2Model ----
(***************************************************************************)
(* The GameTimer session controller of LapTimer: the turn/timer/score      *)
(* state machine of src/app/components/GameTimer.tsx (the Supabase-backed  *)
(* component, variant "db") and of its localStorage-based predecessor      *)
(* (unnamed/part_003, variant "local"), together with the rows the         *)
(* component writes to the Supabase tables turns, vp_changes, players,     *)
(* game_stats and games.                                                   *)
(*                                                                         *)
(* React state is one variable per useState hook.  A handler runs against  *)
(* the state of the render that created it; the part of an async handler   *)
(* that follows an await runs later, against the values captured when the  *)
(* handler was invoked.  Such a suspended handler is a record in `calls`   *)
(* holding the captured values and the await it is parked on.              *)
(***************************************************************************)
EXTENDS Integers, Sequences, FiniteSets, TLC

\* ---- bounds of the model ----
\* players per game; events that reach the component from outside in one session
\* (clicks, VP entries, ticks of either clock, store calls that fail); handlers
\* suspended at once
MaxPlayers == 2
MaxEvents == 5
MaxInflight == 2
\* events in a run that only lets the clocks tick and the timer be toggled
MaxClockEvents == 32
\* players and events in a run that only lets turns be ended
MaxRoundPlayers == 3
MaxRoundEvents == 8
\* events in a run of the game setup form, and how many of its player rows get edited
MaxSetupEvents == 11
MaxEditedPlayers == 2
\* events in a run that builds a ledger for the player statistics
MaxStatsEvents == 6
\* events in a run with reloads of the page
MaxReloadEvents == 6

\* values typed into the Turn VP input
VPInputs == {-5, 2, 30}

\* names typed into the setup form, and palette entries clicked there
SetupNames == {"A", "B"}
ColorInputs == {1, 2}

\* ---- program constants ----
VictoryThreshold == 30
TickMs == 1000
AutosavePeriodMs == 30000
PaletteSize == 10

VARIABLES
    variant,                  \* "db" (GameTimer.tsx) or "local" (part_003)
    phase,                    \* "Idle" (no players loaded), "Active", "Ended" (unmounted by onReset)
    isRunning,
    turnCounter,
    turnElapsedTime,
    gameElapsedTime,
    totalElapsedTime,
    currentPlayerIndex,       \* 0-based, as in the source
    turns,                    \* the in-memory Turn Ledger
    turnVPs,                  \* deltas committed so far in the turn in progress
    players,                  \* sequence of [totalVP, turnVP]; player i of the source is players[i+1]
    shouldUpdatePercentages,
    calls,                    \* suspended async handlers
    dbTurns,                  \* rows of table turns, each with its vp_changes rows
    dbTotalVP,                \* players.total_vp
    dbStats,                  \* the game_stats row
    dbGame,                   \* the games row: total_elapsed_time, is_completed
    saveResult,               \* what handleEndGame last told the user
    saveIntervalAge,          \* ms the autosave interval now installed has been waiting
    budget,                   \* the number of events the run explores
    runTicksSinceSave,        \* history: ticks since the timer was last toggled or an autosave was issued
    turnVPsBy,                \* history: for each entry of turnVPs, the player and the turn that committed it
    recordedBy,               \* history: the player and the turn of the last recorded turn, and who committed its deltas
    memoryAtReload,           \* history: what the session held in memory when the page was last reloaded
    toggles,                  \* history: invocations of toggleTimer so far
    statsReturned,            \* history: the playerStats record the useMemo returned when it last ran
    percentages,              \* useState percentages: the share of time stored per player name
    playerNames,              \* the names of the stored players (players rows / gameSetup.players), in order
    setupPlayers,             \* GameSetup: the player rows of the form, [name, color]; color i is playerColors[i-1]
    submitted,                \* GameSetup: the player list handed to onGameStart, <<>> before that
    loadResult,               \* "none", "loaded" or "failed": how the mount-time load of the players went
    overlapped,               \* history: an End Turn was invoked while an earlier one, or the load, was still awaiting
    events,                   \* history: events so far (user actions, clock ticks, failed store calls)
    endTurnsDone,             \* history: handleEndTurn invocations that ran to their end
    lastTurn,                 \* history: what the last handleEndTurn had to record
    turnStartVP,              \* history: current player's totalVP when the turn began
    dropped                   \* history: failed calls whose error nobody was told about

vars == <<variant, phase, isRunning, turnCounter, turnElapsedTime, gameElapsedTime,
          totalElapsedTime, currentPlayerIndex, turns, turnVPs, players,
          shouldUpdatePercentages, calls, dbTurns, dbTotalVP,
          dbStats, dbGame, saveResult, saveIntervalAge, budget, runTicksSinceSave,
          turnVPsBy, recordedBy, memoryAtReload, toggles, statsReturned, percentages, playerNames, setupPlayers, submitted, loadResult, overlapped, events, endTurnsDone, lastTurn, turnStartVP, dropped>>

\* everything but the setup form and the count of events
sessionVars == <<variant, phase, isRunning, turnCounter, turnElapsedTime, gameElapsedTime,
                 totalElapsedTime, currentPlayerIndex, turns, turnVPs, players,
                 shouldUpdatePercentages, calls, dbTurns, dbTotalVP, dbStats, dbGame,
                 saveResult, saveIntervalAge, budget, runTicksSinceSave, loadResult,
                 overlapped, endTurnsDone, lastTurn, turnStartVP, dropped, playerNames,
                 percentages, statsReturned, toggles, memoryAtReload, turnVPsBy, recordedBy>>

localVars == <<isRunning, turnCounter, turnElapsedTime, gameElapsedTime, totalElapsedTime,
               currentPlayerIndex, turns, turnVPs, players, shouldUpdatePercentages>>
dbVars == <<dbTurns, dbTotalVP, dbStats, dbGame>>
histVars == <<events, endTurnsDone, lastTurn, turnStartVP, dropped>>

\* ---- helpers ----
Max(a, b) == IF a >= b THEN a ELSE b

RECURSIVE SumSeq(_)
SumSeq(s) == IF s = <<>> THEN 0 ELSE s[1] + SumSeq(Tail(s))

RemoveAt(s, i) == [j \in 1..(Len(s) - 1) |-> IF j < i THEN s[j] ELSE s[j + 1]]

playerCount == Len(players)

NoTurn == [player |-> -1, duration |-> 0, turnVPs |-> <<>>, net |-> 0]
\* the counters and clocks of a session; reloaded says that the page has been reloaded
NoMemory == [reloaded |-> FALSE, current_player |-> 0, current_turn_number |-> 1,
             turn_elapsed_time |-> 0, game_elapsed_time |-> 0, total_elapsed_time |-> 0]

NoStats == [current_player |-> -1, current_turn_number |-> 1, turn_elapsed_time |-> 0,
            game_elapsed_time |-> 0, total_elapsed_time |-> 0]

\* the commit without its floor of zero
NewTotalVP_unclamped(totalVP, vp) == totalVP + vp

\* Math.max(0, totalVP + vp)
NewTotalVP(totalVP, vp) == Max(0, totalVP + vp)

\* newPlayers[currentPlayerIndex] = {..., totalVP: newTotalVP, turnVP: 0}
CommitVP(ps, idx, vp) ==
    [ps EXCEPT ![idx + 1] = [totalVP |-> NewTotalVP(@.totalVP, vp), turnVP |-> 0]]

\* the check looking at the first player only
hasWinner_firstPlayer(ps) == ps # <<>> /\ ps[1].totalVP >= VictoryThreshold

\* players.some(player => player.totalVP >= 30)
hasWinner(ps) == \E i \in 1..Len(ps) : ps[i].totalVP >= VictoryThreshold

\* the check with the threshold itself left out (> for >=)
checkVictoryPoints_above(ps, run) ==
    IF (\E i \in 1..Len(ps) : ps[i].totalVP > VictoryThreshold) /\ run THEN FALSE ELSE run

\* the effect on [players, isRunning]: the value of isRunning once the effect has run
checkVictoryPoints(ps, run) == IF hasWinner(ps) /\ run THEN FALSE ELSE run

\* the buttons without their disabled attribute
ButtonEnabled_always == TRUE

\* disabled={!isRunning} on the End Turn and Add VP buttons
ButtonEnabled == isRunning

\* ---- the autosave interval ----
\* the dependency list of the "save game stats periodically" effect: a render in which
\* one of these differs clears the interval and installs a new one
saveIntervalDeps ==
    <<players, currentPlayerIndex, turnCounter, turnElapsedTime, gameElapsedTime,
      totalElapsedTime, isRunning>>

\* the age of the installed interval after a step in which `passed` ms went by
SaveIntervalKept(passed) ==
    saveIntervalAge' = IF saveIntervalDeps' # saveIntervalDeps THEN 0
                       ELSE saveIntervalAge + passed

\* if (!isRunning || !players[currentPlayerIndex]) return; setInterval(..., 30000)
SaveIntervalFires(passed) ==
    /\ isRunning
    /\ currentPlayerIndex < Len(players)
    /\ saveIntervalAge + passed >= AutosavePeriodMs

\* a step of a handler: no clock time goes by in it
NoTimePasses ==
    /\ SaveIntervalKept(0)
    /\ UNCHANGED <<budget, runTicksSinceSave>>

NewCall(op, pc) ==
    [op |-> op, pc |-> pc, idx |-> 0, tc |-> 0, te |-> 0, ge |-> 0, tot |-> 0,
     vps |-> <<>>, newTotal |-> 0, updVP |-> FALSE,
     snapTurns |-> <<>>, snapPlayers |-> <<>>, k |-> 0,
     stored |-> <<>>]

InitNamed(names, b) ==
    /\ variant \in {"db", "local"}
    /\ playerNames = names
    /\ percentages = [name \in {} |-> 0]
    /\ statsReturned = [name \in {} |-> 0]
    /\ toggles = 0
    /\ memoryAtReload = NoMemory
    /\ turnVPsBy = <<>>
    /\ recordedBy = [player |-> -1, turn |-> 0, by |-> <<>>]
    /\ phase = "Idle"
    /\ isRunning = FALSE
    /\ turnCounter = 1
    /\ turnElapsedTime = 0
    /\ gameElapsedTime = 0
    /\ totalElapsedTime = 0
    /\ currentPlayerIndex = 0
    /\ turns = <<>>
    /\ turnVPs = <<>>
    /\ players = <<>>
    /\ shouldUpdatePercentages = TRUE
    /\ calls = <<>>
    /\ dbTurns = <<>>
    /\ dbTotalVP = [i \in 1..Len(names) |-> 0]
    /\ dbStats = NoStats
    /\ dbGame = [total_elapsed_time |-> 0, is_completed |-> FALSE]
    /\ saveResult = "none"
    /\ events = 0
    /\ endTurnsDone = 0
    /\ lastTurn = NoTurn
    /\ turnStartVP = 0
    /\ dropped = {}
    /\ saveIntervalAge = 0
    /\ runTicksSinceSave = 0
    /\ overlapped = FALSE
    /\ loadResult = "none"
    /\ setupPlayers = <<[name |-> "", color |-> 1]>>
    /\ submitted = <<>>
    /\ budget = b

\* n stored players of different names
DistinctNames == <<"A", "B", "C", "D", "E", "F">>

InitWith(n, b) == InitNamed(SubSeq(DistinctNames, 1, n), b)

Init == \E n \in 1..MaxPlayers : InitWith(n, MaxEvents)

\* a turn as handleEndTurn builds it, with playerName and turnVPs; a row loaded from the
\* store has neither, and turn.turnVPs.reduce(...) on it throws inside saveGameData's try
IsTurn(t) == "turnVPs" \in DOMAIN t

\* stats[turn.playerName] is undefined for a ledger entry without playerName (a turns row
\* as loadGameState returns it), and the assignment playerStat.lastTurn = ... throws
\* while the component renders
playerStatsThrows == \E j \in 1..Len(turns) : ~IsTurn(turns[j])

\* the component is mounted: not unmounted by onReset, neither after End Game nor by
\* part_003's mount effect, and not taken down by an exception while rendering
Mounted ==
    /\ phase # "Ended"
    /\ ~(variant = "local" /\ loadResult = "failed")
    /\ ~playerStatsThrows

\* ---- player statistics (playerStats) ----
\* the statistics without the percentage, which StoredPercentage and Render below add
NoPlayerStats == [lastTurn |-> 0, averageTurn |-> 0, totalTime |-> 0, turnCount |-> 0]

\* Math.round(n / d) for n >= 0 and d > 0: the floor of n / d + 0.5
MathRound(n, d) == (2 * n + d) \div (2 * d)

\* turns.forEach(turn => ...); the entry's playerName is the name of the player whose turn it was
RECURSIVE StatsOfTurns(_, _)
StatsOfTurns(stats, ts) ==
    IF ts = <<>> THEN stats
    ELSE LET turn == Head(ts)
             playerName == playerNames[turn.player + 1]
             playerStat == stats[playerName]
             totalTime == playerStat.totalTime + turn.duration
             turnCount == playerStat.turnCount + 1
         IN StatsOfTurns([stats EXCEPT ![playerName] =
                             [lastTurn |-> turn.duration, totalTime |-> totalTime,
                              turnCount |-> turnCount,
                              averageTurn |-> MathRound(totalTime, turnCount)]],
                         Tail(ts))

\* the record keyed by player.name that the useMemo returns
playerStats ==
    StatsOfTurns([name \in {playerNames[i] : i \in 1..Len(players)} |-> NoPlayerStats], turns)

\* percentages[player.name] || 0
StoredPercentage(name) == IF name \in DOMAIN percentages THEN percentages[name] ELSE 0

\* Object.values(stats).reduce((sum, stat) => sum + stat.totalTime, 0)
RECURSIVE SumTotalTime(_, _)
SumTotalTime(stats, names) ==
    IF names = {} THEN 0
    ELSE LET name == CHOOSE x \in names : TRUE
         IN stats[name].totalTime + SumTotalTime(stats, names \ {name})

\* the share taken of the time on the game clock
totalPlayerTime_gameClock == gameElapsedTime

totalPlayerTime == SumTotalTime(playerStats, DOMAIN playerStats)

\* Math.round((playerStat.totalTime / totalPlayerTime) * 100), for totalPlayerTime > 0,
\* in exact arithmetic. The double-precision product equals the exact one for every
\* ledger of fewer than 40 seconds; the smallest pair on which Math.round of the double
\* is one below the rounded exact quotient is 23 s of 40 s (57.49999999999999 -> 57).
newPercentages ==
    [name \in DOMAIN playerStats |->
        (200 * playerStats[name].totalTime + totalPlayerTime) \div (2 * totalPlayerTime)]

\* a statistics record with its percentage field
WithPercentage(stat, percentage) ==
    [lastTurn |-> stat.lastTurn, averageTurn |-> stat.averageTurn, totalTime |-> stat.totalTime,
     turnCount |-> stat.turnCount, percentage |-> percentage]

\* the useMemo run in the current state: the record it returns
playerStatsReturned ==
    LET update == shouldUpdatePercentages /\ gameElapsedTime > 0 /\ totalPlayerTime > 0
    IN [name \in DOMAIN playerStats |->
           WithPercentage(playerStats[name],
                          IF update THEN newPercentages[name] ELSE StoredPercentage(name))]

\* the percentages stay as they are after the useMemo has computed new ones
StorePercentages_dropped(new, old) == old

\* setPercentages(newPercentages)
StorePercentages(new, old) == new

\* the render after a handler that leaves shouldUpdatePercentages at flag: the useMemo
\* stores new percentages when the flag is set, the game clock has run and some turn
\* has a duration, and clears the flag; a render that throws, or a component that is
\* not mounted, sets nothing
Render(flag) ==
    LET stored == [name \in DOMAIN playerStats' |->
                      WithPercentage(playerStats'[name], StoredPercentage(name))]
        fresh == [name \in DOMAIN playerStats' |->
                      WithPercentage(playerStats'[name], newPercentages'[name])]
    IN IF ~Mounted'
       THEN /\ shouldUpdatePercentages' = flag
            /\ UNCHANGED <<percentages, statsReturned>>
       ELSE IF ~(flag /\ gameElapsedTime' > 0)
       THEN /\ shouldUpdatePercentages' = flag
            /\ percentages' = percentages
            /\ statsReturned' = stored
       ELSE /\ shouldUpdatePercentages' = FALSE
            /\ percentages' = IF totalPlayerTime' > 0
                               THEN StorePercentages(newPercentages', percentages)
                               ELSE percentages
            /\ statsReturned' = IF totalPlayerTime' > 0 THEN fresh ELSE stored

\* ---- loading the session (Idle -> Active) ----
\* how the read of the player list can end: GameTimer.tsx selects the players rows
\* (an error, no rows, or rows); part_003 reads gameSetup from localStorage (absent or present)
LoadOutcomes == IF variant = "db" THEN {"ok", "error", "empty"} ELSE {"ok", "empty"}

\* the load going on whatever the read returned
PlayersLoaded_always(outcome) == TRUE

\* if (playersError) return; if (!dbPlayers || dbPlayers.length === 0) return;
\* part_003: if (gameSetup) {...} else onReset()
PlayersLoaded(outcome) == outcome = "ok"

\* The mount effect, up to its first await in GameTimer.tsx.  With players the component
\* renders and its buttons are live; GameTimer.tsx then awaits loadGameState.  Without
\* players GameTimer.tsx returns and keeps rendering null, part_003 calls onReset().
loadState(outcome) ==
    /\ phase = "Idle"
    /\ loadResult = "none"
    /\ outcome \in LoadOutcomes
    /\ outcome # "ok" => events < budget
    /\ loadResult' = IF outcome = "ok" THEN "loaded" ELSE "failed"
    /\ events' = IF outcome = "ok" THEN events ELSE events + 1
    /\ IF PlayersLoaded(outcome)
       THEN /\ players' = [i \in 1..Len(dbTotalVP) |->
                              [totalVP |-> IF variant = "db" THEN dbTotalVP[i] ELSE 0, turnVP |-> 0]]
            /\ phase' = "Active"
            /\ calls' = IF variant = "db" THEN Append(calls, NewCall("load", "loadGameState"))
                        ELSE calls
       ELSE UNCHANGED <<players, phase, calls>>
    /\ UNCHANGED <<variant, turnVPsBy, recordedBy, memoryAtReload, toggles, playerNames, setupPlayers, submitted, overlapped, isRunning, turnCounter, turnElapsedTime, gameElapsedTime,
                   totalElapsedTime, currentPlayerIndex, turns, turnVPs,
                   saveResult, endTurnsDone, lastTurn, turnStartVP, dropped>>
    /\ UNCHANGED dbVars
    /\ NoTimePasses
    /\ Render(shouldUpdatePercentages)

\* loadGameState has returned to loadState: the game_stats row and the turns rows as the
\* store has them now replace the counters, the clocks and the ledger; after a failed
\* read gameStats and turns are null and nothing is set
loadGameState(i, failed) ==
    /\ i \in 1..Len(calls)
    /\ calls[i].pc = "loadGameState"
    /\ failed => events < budget
    /\ IF failed \/ phase # "Active"
       THEN UNCHANGED <<turnCounter, turnElapsedTime, gameElapsedTime, totalElapsedTime, turns>>
       ELSE /\ turnCounter' = dbStats.current_turn_number
            /\ turnElapsedTime' = dbStats.turn_elapsed_time
            /\ gameElapsedTime' = dbStats.game_elapsed_time
            /\ totalElapsedTime' = dbStats.total_elapsed_time
            /\ turns' = dbTurns
    /\ calls' = RemoveAt(calls, i)
    /\ events' = IF failed THEN events + 1 ELSE events
    /\ UNCHANGED <<variant, turnVPsBy, recordedBy, memoryAtReload, toggles, playerNames, setupPlayers, submitted, loadResult, overlapped, phase, isRunning, currentPlayerIndex, turnVPs,
                   players, saveResult, endTurnsDone, lastTurn,
                   turnStartVP, dropped>>
    /\ UNCHANGED dbVars
    /\ NoTimePasses
    /\ Render(shouldUpdatePercentages)

\* ---- the clock ----
\* the interval that exists whatever isRunning is
TimerRuns_always == TRUE

\* if (isRunning) { intervalId = setInterval(...) }, cleared when isRunning changes
TimerRuns == isRunning

\* setInterval of the [isRunning] effect.  A second has gone by: the autosave interval,
\* if it has waited its 30 s, calls saveGameStats with the values of the render that
\* installed it; the tick then changes turnElapsedTime and gameElapsedTime, which are
\* among the dependencies of the autosave effect.
Tick ==
    /\ phase = "Active"
    /\ Mounted
    /\ TimerRuns
    /\ events < budget
    /\ turnElapsedTime' = turnElapsedTime + TickMs
    /\ gameElapsedTime' = gameElapsedTime + TickMs
    /\ UNCHANGED <<variant, turnVPsBy, recordedBy, memoryAtReload, toggles, playerNames, setupPlayers, submitted, loadResult, overlapped, phase, isRunning, turnCounter, totalElapsedTime, currentPlayerIndex,
                   turns, turnVPs, players,
                   calls, saveResult>>
    /\ dbStats' = IF SaveIntervalFires(TickMs)
                  THEN [current_player |-> currentPlayerIndex,
                        current_turn_number |-> turnCounter,
                        turn_elapsed_time |-> turnElapsedTime,
                        game_elapsed_time |-> gameElapsedTime,
                        total_elapsed_time |-> totalElapsedTime]
                  ELSE dbStats
    /\ runTicksSinceSave' = IF SaveIntervalFires(TickMs) THEN 0 ELSE runTicksSinceSave + 1
    /\ UNCHANGED <<dbTurns, dbTotalVP, dbGame, budget>>
    /\ events' = events + 1
    /\ UNCHANGED <<endTurnsDone, lastTurn, turnStartVP, dropped>>
    /\ SaveIntervalKept(TickMs)
    /\ Render(shouldUpdatePercentages)

\* setInterval of the [] effect: runs from mount to unmount
TotalTick ==
    /\ Mounted
    /\ events < budget
    /\ totalElapsedTime' = totalElapsedTime + TickMs
    /\ UNCHANGED <<variant, turnVPsBy, recordedBy, memoryAtReload, toggles, playerNames, setupPlayers, submitted, loadResult, overlapped, phase, isRunning, turnCounter, turnElapsedTime, gameElapsedTime,
                   currentPlayerIndex, turns, turnVPs, players, calls, saveResult>>
    /\ UNCHANGED dbVars
    /\ events' = events + 1
    /\ UNCHANGED <<endTurnsDone, lastTurn, turnStartVP, dropped>>
    /\ NoTimePasses
    /\ Render(shouldUpdatePercentages)

\* ---- toggleTimer ----
\* the flag set by every toggle
MarkOnToggle_always(run, flag) == TRUE

\* if (isRunning) setShouldUpdatePercentages(true)
MarkOnToggle(run, flag) == IF run THEN TRUE ELSE flag

toggleTimer ==
    /\ phase = "Active"
    /\ Mounted
    /\ events < budget
    /\ isRunning' = checkVictoryPoints(players, ~isRunning)
    /\ UNCHANGED <<variant, turnVPsBy, recordedBy, memoryAtReload, playerNames, setupPlayers, submitted, loadResult, overlapped, phase, turnCounter, turnElapsedTime, gameElapsedTime,
                   totalElapsedTime, currentPlayerIndex, turns, turnVPs, players, calls, saveResult>>
    /\ UNCHANGED dbVars
    /\ events' = events + 1
    /\ UNCHANGED <<endTurnsDone, lastTurn, turnStartVP, dropped>>
    /\ SaveIntervalKept(0)
    /\ runTicksSinceSave' = 0
    /\ UNCHANGED budget
    /\ toggles' = toggles + 1
    /\ Render(MarkOnToggle(isRunning, shouldUpdatePercentages))

\* ---- updatePlayerTurnVP: the Turn VP input, enabled for the current player only ----
updatePlayerTurnVP(value) ==
    /\ phase = "Active"
    /\ Mounted
    /\ events < budget
    /\ players' = [players EXCEPT ![currentPlayerIndex + 1].turnVP = value]
    /\ players' # players
    /\ isRunning' = checkVictoryPoints(players', isRunning)
    /\ UNCHANGED <<variant, turnVPsBy, recordedBy, memoryAtReload, toggles, playerNames, setupPlayers, submitted, loadResult, overlapped, phase, turnCounter, turnElapsedTime, gameElapsedTime,
                   totalElapsedTime, currentPlayerIndex, turns, turnVPs, calls, saveResult>>
    /\ UNCHANGED dbVars
    /\ events' = events + 1
    /\ UNCHANGED <<endTurnsDone, lastTurn, turnStartVP, dropped>>
    /\ NoTimePasses
    /\ Render(shouldUpdatePercentages)

\* setTurnVPs([]) of handleEndTurn and of the effect on currentPlayerIndex
ClearedTurnVPs_kept(list) == list

ClearedTurnVPs(list) == <<>>

\* who commits a delta now: the current player, in the turn after endTurnsDone ended turns
CommittedNow == [player |-> currentPlayerIndex, turn |-> endTurnsDone]

\* ---- handleAddVP ----
\* part_003: synchronous, nothing is persisted
handleAddVPLocal ==
    /\ variant = "local"
    /\ phase = "Active"
    /\ Mounted
    /\ events < budget
    /\ ButtonEnabled
    /\ isRunning
    /\ players[currentPlayerIndex + 1].turnVP # 0
    /\ turnVPs' = Append(turnVPs, players[currentPlayerIndex + 1].turnVP)
    /\ turnVPsBy' = Append(turnVPsBy, CommittedNow)
    /\ players' = CommitVP(players, currentPlayerIndex, players[currentPlayerIndex + 1].turnVP)
    /\ isRunning' = checkVictoryPoints(players', isRunning)
    /\ UNCHANGED <<variant, recordedBy, memoryAtReload, toggles, playerNames, setupPlayers, submitted, loadResult, overlapped, phase, turnCounter, turnElapsedTime, gameElapsedTime,
                   totalElapsedTime, currentPlayerIndex, turns, calls, saveResult>>
    /\ UNCHANGED dbVars
    /\ events' = events + 1
    /\ UNCHANGED <<endTurnsDone, lastTurn, turnStartVP, dropped>>
    /\ NoTimePasses
    /\ Render(shouldUpdatePercentages)

\* GameTimer.tsx: commits at once, then awaits updatePlayerTotalVP
handleAddVPDb ==
    /\ variant = "db"
    /\ phase = "Active"
    /\ Mounted
    /\ events < budget
    /\ ButtonEnabled
    /\ isRunning
    /\ Len(calls) < MaxInflight
    /\ LET vpValue == players[currentPlayerIndex + 1].turnVP
           newPlayers == CommitVP(players, currentPlayerIndex, vpValue)
       IN /\ vpValue # 0
          /\ turnVPs' = Append(turnVPs, vpValue)
          /\ turnVPsBy' = Append(turnVPsBy, CommittedNow)
          /\ players' = newPlayers
          /\ isRunning' = checkVictoryPoints(newPlayers, isRunning)
          /\ calls' = Append(calls, [NewCall("addVP", "updateVP") EXCEPT
                                        !.idx = currentPlayerIndex,
                                        !.newTotal = newPlayers[currentPlayerIndex + 1].totalVP])
    /\ UNCHANGED <<variant, recordedBy, memoryAtReload, toggles, playerNames, setupPlayers, submitted, loadResult, overlapped, phase, turnCounter, turnElapsedTime, gameElapsedTime,
                   totalElapsedTime, currentPlayerIndex, turns, saveResult>>
    /\ UNCHANGED dbVars
    /\ events' = events + 1
    /\ UNCHANGED <<endTurnsDone, lastTurn, turnStartVP, dropped>>
    /\ NoTimePasses
    /\ Render(shouldUpdatePercentages)

\* ---- handleEndTurn ----
\* the pending VP recorded whatever it is
RecordsDelta_any(vp) == TRUE

\* if (currentVP !== 0)
RecordsDelta(vp) == vp # 0

\* the round counter going up with every turn ended
NextTurnCounter_everyTurn(tc, nextPlayerIndex) == tc + 1

\* if (nextPlayerIndex === 0) setTurnCounter(prev => prev + 1)
NextTurnCounter(tc, nextPlayerIndex) == IF nextPlayerIndex = 0 THEN tc + 1 ELSE tc

\* what a turn ended now has to record: the deltas added during the turn followed by
\* a non-zero pending VP, the turn-elapsed time, and the turn's net change of totalVP
\* the turn handleEndTurn records now, with the committer of each of its deltas
RecordedNow(vp) ==
    [player |-> currentPlayerIndex, turn |-> endTurnsDone,
     by |-> IF RecordsDelta(vp) THEN Append(turnVPsBy, CommittedNow) ELSE turnVPsBy]

TurnToRecord(idx, vp) ==
    [player |-> idx, duration |-> turnElapsedTime,
     turnVPs |-> IF RecordsDelta(vp) THEN Append(turnVPs, vp) ELSE turnVPs,
     net |-> (IF RecordsDelta(vp) THEN NewTotalVP(players[idx + 1].totalVP, vp)
                        ELSE players[idx + 1].totalVP) - turnStartVP]

\* the ledger replaced by the new turn alone
AppendTurn_replace(ts, newTurn) == <<newTurn>>

\* setTurns(prev => [...prev, newTurn])
AppendTurn(ts, newTurn) == Append(ts, newTurn)

\* part_003: synchronous; commits the pending VP, appends the turn, rotates
handleEndTurnLocal ==
    /\ variant = "local"
    /\ phase = "Active"
    /\ Mounted
    /\ events < budget
    /\ ButtonEnabled
    /\ LET idx == currentPlayerIndex
           vp == players[idx + 1].turnVP
           updatedTurnVPs == Append(turnVPs, vp)
           newPlayers == IF RecordsDelta(vp) THEN CommitVP(players, idx, vp) ELSE players
           newTurn == [player |-> idx, duration |-> turnElapsedTime,
                       turnVPs |-> IF RecordsDelta(vp) THEN updatedTurnVPs ELSE turnVPs]
           nextPlayerIndex == (idx + 1) % playerCount
       IN /\ players' = newPlayers
          /\ turns' = AppendTurn(turns, newTurn)
          /\ turnElapsedTime' = 0
          /\ currentPlayerIndex' = nextPlayerIndex
          /\ turnVPs' = ClearedTurnVPs(IF RecordsDelta(vp) THEN updatedTurnVPs ELSE turnVPs)
          /\ turnVPsBy' = ClearedTurnVPs(RecordedNow(vp).by)
          /\ recordedBy' = RecordedNow(vp)
          /\ turnCounter' = NextTurnCounter(turnCounter, nextPlayerIndex)
          /\ isRunning' = checkVictoryPoints(newPlayers, isRunning)
          /\ lastTurn' = TurnToRecord(idx, vp)
          /\ turnStartVP' = newPlayers[nextPlayerIndex + 1].totalVP
    /\ events' = events + 1
    /\ endTurnsDone' = endTurnsDone + 1
    /\ UNCHANGED <<variant, memoryAtReload, toggles, playerNames, setupPlayers, submitted, loadResult, overlapped, phase, gameElapsedTime, totalElapsedTime,
                   calls, saveResult, dropped>>
    /\ UNCHANGED dbVars
    /\ NoTimePasses
    /\ Render(TRUE)

\* GameTimer.tsx, up to its first await: commits the pending VP, then parks on
\* saveTurn (when the turn has deltas) or on saveGameStats
handleEndTurnDb ==
    /\ variant = "db"
    /\ phase = "Active"
    /\ Mounted
    /\ events < budget
    /\ ButtonEnabled
    /\ Len(calls) < MaxInflight
    /\ LET idx == currentPlayerIndex
           currentVP == players[idx + 1].turnVP
           updatedTurnVPs == Append(turnVPs, currentVP)
           newPlayers == IF RecordsDelta(currentVP) THEN CommitVP(players, idx, currentVP) ELSE players
           c == [NewCall("endTurn", "saveStats") EXCEPT
                    !.idx = idx, !.tc = turnCounter, !.te = turnElapsedTime,
                    !.ge = gameElapsedTime, !.tot = totalElapsedTime]
       IN /\ players' = newPlayers
          /\ turnVPs' = IF RecordsDelta(currentVP) THEN updatedTurnVPs ELSE turnVPs
          /\ isRunning' = checkVictoryPoints(newPlayers, isRunning)
          /\ calls' = Append(calls,
                IF RecordsDelta(currentVP)
                THEN [c EXCEPT !.pc = "saveTurn", !.vps = updatedTurnVPs, !.updVP = TRUE,
                               !.newTotal = newPlayers[idx + 1].totalVP]
                ELSE IF Len(turnVPs) > 0
                     THEN [c EXCEPT !.pc = "saveTurn", !.vps = turnVPs]
                     ELSE c)
          /\ lastTurn' = TurnToRecord(idx, currentVP)
          /\ turnVPsBy' = RecordedNow(currentVP).by
          /\ recordedBy' = RecordedNow(currentVP)
          /\ overlapped' = (overlapped \/ \E j \in 1..Len(calls) : calls[j].op \in {"endTurn", "load"})
    /\ events' = events + 1
    /\ UNCHANGED <<variant, memoryAtReload, toggles, playerNames, setupPlayers, submitted, loadResult, phase, turnCounter, turnElapsedTime, gameElapsedTime,
                   totalElapsedTime, currentPlayerIndex, turns, saveResult, endTurnsDone, turnStartVP, dropped>>
    /\ UNCHANGED dbVars
    /\ NoTimePasses
    /\ Render(shouldUpdatePercentages)

\* ---- Persistence Gateway calls of handleEndTurn and handleAddVP (gameOperations.ts) ----
\* A call either reaches the store or fails on the way (failed = TRUE); the tables'
\* constraints (db/schema.sql) reject rows on top of that.  All three functions
\* catch and return {error}, and neither handler looks at what they return.

\* unique(game_id, player_id, turn_number) on turns
TurnRowExists(playerId, turnNumber) ==
    \E j \in 1..Len(dbTurns) :
        dbTurns[j].player = playerId /\ dbTurns[j].turn_number = turnNumber

\* unique(turn_id, player_id) on vp_changes: one insert of several rows for one turn is rejected
VpInsertAccepted(vpChanges) == Len(vpChanges) <= 1

\* saveTurn: the turns row first, then its vp_changes rows
saveTurn(i, failed) ==
    /\ i \in 1..Len(calls)
    /\ calls[i].pc = "saveTurn"
    /\ failed => events < budget
    /\ LET c == calls[i]
           turnError == failed \/ TurnRowExists(c.idx, c.tc)
           vpError == ~turnError /\ ~VpInsertAccepted(c.vps)
           row == [player |-> c.idx, turn_number |-> c.tc, duration |-> c.te,
                   vps |-> IF vpError THEN <<>> ELSE c.vps]
       IN /\ dbTurns' = IF turnError THEN dbTurns ELSE Append(dbTurns, row)
          /\ dropped' = IF turnError \/ vpError THEN dropped \cup {"saveTurn"} ELSE dropped
          /\ calls' = [calls EXCEPT ![i].pc = IF c.updVP THEN "updateVP" ELSE "saveStats"]
    /\ events' = IF failed THEN events + 1 ELSE events
    /\ UNCHANGED <<variant, turnVPsBy, recordedBy, memoryAtReload, toggles, playerNames, setupPlayers, submitted, loadResult, overlapped, phase, saveResult, dbTotalVP, dbStats, dbGame,
                   endTurnsDone, lastTurn, turnStartVP>>
    /\ UNCHANGED localVars
    /\ NoTimePasses
    /\ UNCHANGED <<percentages, statsReturned>>

\* updatePlayerTotalVP, awaited by handleEndTurn (then saveGameStats follows) and by
\* handleAddVP (then the handler is over)
updatePlayerTotalVP(i, failed) ==
    /\ i \in 1..Len(calls)
    /\ calls[i].pc = "updateVP"
    /\ failed => events < budget
    /\ LET c == calls[i]
       IN /\ dbTotalVP' = IF failed THEN dbTotalVP
                          ELSE [dbTotalVP EXCEPT ![c.idx + 1] = c.newTotal]
          /\ calls' = IF c.op = "endTurn" THEN [calls EXCEPT ![i].pc = "saveStats"]
                      ELSE RemoveAt(calls, i)
    /\ dropped' = IF failed THEN dropped \cup {"updatePlayerTotalVP"} ELSE dropped
    /\ events' = IF failed THEN events + 1 ELSE events
    /\ UNCHANGED <<variant, turnVPsBy, recordedBy, memoryAtReload, toggles, playerNames, setupPlayers, submitted, loadResult, overlapped, phase, saveResult, dbTurns, dbStats, dbGame,
                   endTurnsDone, lastTurn, turnStartVP>>
    /\ UNCHANGED localVars
    /\ NoTimePasses
    /\ UNCHANGED <<percentages, statsReturned>>

\* saveGameStats for the next player, and the rest of handleEndTurn after it: the
\* setters run with the values captured at the click, except the functional
\* setTurnCounter(prev => prev + 1); they do nothing once the component is unmounted
saveGameStats(i, failed) ==
    /\ i \in 1..Len(calls)
    /\ calls[i].pc = "saveStats"
    /\ failed => events < budget
    /\ LET c == calls[i]
           nextPlayerIndex == (c.idx + 1) % playerCount
       IN /\ dbStats' = IF failed THEN dbStats
                        ELSE [current_player |-> nextPlayerIndex,
                              current_turn_number |-> c.tc + (IF nextPlayerIndex = 0 THEN 1 ELSE 0),
                              turn_elapsed_time |-> 0,
                              game_elapsed_time |-> c.ge,
                              total_elapsed_time |-> c.tot]
          /\ IF phase = "Active"
             THEN /\ turnElapsedTime' = 0
                  /\ currentPlayerIndex' = nextPlayerIndex
                  /\ turnVPs' = ClearedTurnVPs(turnVPs)
                  /\ turnVPsBy' = ClearedTurnVPs(turnVPsBy)
                  /\ turnCounter' = NextTurnCounter(turnCounter, nextPlayerIndex)
                  /\ turnStartVP' = players[nextPlayerIndex + 1].totalVP
             ELSE UNCHANGED <<turnElapsedTime, currentPlayerIndex,
                              turnVPs, turnVPsBy, turnCounter, turnStartVP>>
          /\ calls' = RemoveAt(calls, i)
    /\ endTurnsDone' = endTurnsDone + 1
    /\ dropped' = IF failed THEN dropped \cup {"saveGameStats"} ELSE dropped
    /\ events' = IF failed THEN events + 1 ELSE events
    /\ UNCHANGED <<variant, recordedBy, memoryAtReload, toggles, playerNames, setupPlayers, submitted, loadResult, overlapped, phase, isRunning, gameElapsedTime, totalElapsedTime, turns,
                   players, saveResult, dbTurns, dbTotalVP, dbGame,
                   lastTurn>>
    /\ NoTimePasses
    /\ Render(IF phase = "Active" THEN TRUE ELSE shouldUpdatePercentages)

\* ---- handleEndGame / saveGameData ----
\* The End Game click that finds the confirmation armed.  saveGameData asks for a
\* percentage update, pauses, and then works through the store with the turns and
\* players of the render it was called from.
handleEndGame ==
    /\ phase = "Active"
    /\ Mounted
    /\ events < budget
    /\ Len(calls) < MaxInflight
    /\ isRunning' = FALSE
    /\ calls' = Append(calls, [NewCall("endGame", "updateGame") EXCEPT
                                  !.ge = gameElapsedTime, !.snapTurns = turns,
                                  !.snapPlayers = players, !.stored = dbTurns])
    /\ events' = events + 1
    /\ UNCHANGED <<variant, turnVPsBy, recordedBy, memoryAtReload, toggles, playerNames, setupPlayers, submitted, loadResult, overlapped, phase, turnCounter, turnElapsedTime, gameElapsedTime,
                   totalElapsedTime, currentPlayerIndex, turns, turnVPs, players, saveResult,
                   endTurnsDone, lastTurn, turnStartVP,
                   dropped>>
    /\ UNCHANGED dbVars
    /\ NoTimePasses
    /\ Render(TRUE)

\* saveGameData has returned ok to handleEndGame: the alert, and on success the
\* question whether to return to game setup (onReset unmounts the component)
EndGameReturns(i, ok, returnToSetup) ==
    /\ saveResult' = IF ok THEN "success" ELSE "failed"
    /\ phase' = IF ok /\ returnToSetup THEN "Ended" ELSE phase
    /\ calls' = RemoveAt(calls, i)

\* 1. games.update({total_elapsed_time, updated_at, is_completed: !isReset})
saveGameData_game(i, failed) ==
    /\ i \in 1..Len(calls)
    /\ calls[i].pc = "updateGame"
    /\ failed => events < budget
    /\ IF failed
       THEN /\ EndGameReturns(i, FALSE, FALSE)
            /\ UNCHANGED dbGame
       ELSE /\ dbGame' = [total_elapsed_time |-> calls[i].ge, is_completed |-> TRUE]
            /\ calls' = [calls EXCEPT ![i].pc = "clearTurns"]
            /\ UNCHANGED <<saveResult, phase>>
    /\ events' = IF failed THEN events + 1 ELSE events
    /\ UNCHANGED <<variant, turnVPsBy, recordedBy, memoryAtReload, toggles, playerNames, setupPlayers, submitted, loadResult, overlapped, dbTurns, dbTotalVP, dbStats, endTurnsDone, lastTurn,
                   turnStartVP, dropped>>
    /\ UNCHANGED localVars
    /\ NoTimePasses
    /\ UNCHANGED <<percentages, statsReturned>>

\* vp_changes.turn_id references turns(id) with no ON DELETE action: a turn that has
\* vp_changes rows cannot be deleted
TurnsDeletable == \A j \in 1..Len(dbTurns) : dbTurns[j].vps = <<>>

\* 2. turns.delete() for the game, then the select of the players' ids, then
\* turns.map(...) over the in-memory ledger (a throw is caught: return false).
\* db/schema.sql enables row level security on turns with policies for select and
\* insert only: where that is in force the delete sees no row and reports no error
\* (permitted = FALSE); a store that lets the delete through checks the foreign key.
saveGameData_clearTurns(i, failed, selectFailed, permitted) ==
    /\ i \in 1..Len(calls)
    /\ calls[i].pc = "clearTurns"
    /\ (failed \/ selectFailed) => events < budget
    /\ ~(failed /\ selectFailed)
    /\ failed => permitted
    /\ LET clearTurnsError == failed \/ (permitted /\ ~TurnsDeletable)
           mapThrows == \E j \in 1..Len(calls[i].snapTurns) : ~IsTurn(calls[i].snapTurns[j])
       IN /\ dbTurns' = IF clearTurnsError \/ ~permitted THEN dbTurns ELSE <<>>
          /\ IF clearTurnsError \/ selectFailed \/ mapThrows
             THEN EndGameReturns(i, FALSE, FALSE)
             ELSE /\ calls' = [calls EXCEPT ![i].pc =
                                  IF calls[i].snapTurns = <<>> THEN "updateVPs" ELSE "insertTurns"]
                  /\ UNCHANGED <<saveResult, phase>>
    /\ events' = IF failed \/ selectFailed THEN events + 1 ELSE events
    /\ UNCHANGED <<variant, turnVPsBy, recordedBy, memoryAtReload, toggles, playerNames, setupPlayers, submitted, loadResult, overlapped, dbTotalVP, dbStats, dbGame, endTurnsDone,
                   lastTurn, turnStartVP, dropped>>
    /\ UNCHANGED localVars
    /\ NoTimePasses
    /\ UNCHANGED <<percentages, statsReturned>>

\* turns.map(...): one row per in-memory turn, with its vp_details
TurnsToInsert(ts) ==
    [j \in 1..Len(ts) |-> [player |-> ts[j].player, turn_number |-> 0,
                           duration |-> ts[j].duration, vps |-> ts[j].turnVPs]]

\* turns.insert(turnsToInsert), when there is a turn to insert.  The rows carry
\* victory_points and vp_details and no turn_number: the turns table of db/schema.sql
\* rejects them (failed = TRUE), the table as it was before db/update_schema.sql
\* dropped the two columns accepts them.
saveGameData_insertTurns(i, failed) ==
    /\ i \in 1..Len(calls)
    /\ calls[i].pc = "insertTurns"
    /\ failed => events < budget
    /\ IF failed
       THEN /\ EndGameReturns(i, FALSE, FALSE)
            /\ UNCHANGED dbTurns
       ELSE /\ dbTurns' = dbTurns \o TurnsToInsert(calls[i].snapTurns)
            /\ calls' = [calls EXCEPT ![i].pc = "updateVPs"]
            /\ UNCHANGED <<saveResult, phase>>
    /\ events' = IF failed THEN events + 1 ELSE events
    /\ UNCHANGED <<variant, turnVPsBy, recordedBy, memoryAtReload, toggles, playerNames, setupPlayers, submitted, loadResult, overlapped, dbTotalVP, dbStats, dbGame, endTurnsDone,
                   lastTurn, turnStartVP, dropped>>
    /\ UNCHANGED localVars
    /\ NoTimePasses
    /\ UNCHANGED <<percentages, statsReturned>>

\* 3. the loop over players: an update that fails is logged and the loop goes on;
\* then return true
saveGameData_playerVPs(i, failedFor, returnToSetup) ==
    /\ i \in 1..Len(calls)
    /\ calls[i].pc = "updateVPs"
    /\ failedFor \subseteq 1..Len(calls[i].snapPlayers)
    /\ events + Cardinality(failedFor) <= budget
    /\ dbTotalVP' = [k \in 1..Len(dbTotalVP) |->
                        IF k \in failedFor THEN dbTotalVP[k]
                        ELSE calls[i].snapPlayers[k].totalVP]
    /\ dropped' = IF failedFor # {} THEN dropped \cup {"saveGameData"} ELSE dropped
    /\ events' = events + Cardinality(failedFor)
    /\ EndGameReturns(i, TRUE, returnToSetup)
    /\ UNCHANGED <<variant, turnVPsBy, recordedBy, memoryAtReload, toggles, playerNames, setupPlayers, submitted, loadResult, overlapped, dbTurns, dbStats, dbGame, endTurnsDone,
                   lastTurn, turnStartVP>>
    /\ UNCHANGED localVars
    /\ NoTimePasses
    /\ UNCHANGED <<percentages, statsReturned>>

\* ---- reloading the page ----
\* the game_stats row as it would be written from the state in memory
StatsInMemory ==
    [current_player |-> currentPlayerIndex, current_turn_number |-> turnCounter,
     turn_elapsed_time |-> turnElapsedTime, game_elapsed_time |-> gameElapsedTime,
     total_elapsed_time |-> totalElapsedTime]

\* GameTimer.tsx is mounted anew for the same gameId once its store calls are over: every
\* useState starts from its initial value, the store keeps what it has, and the mount
\* effect loads again
reload ==
    /\ variant = "db"
    /\ phase = "Active"
    /\ Mounted
    /\ calls = <<>>
    /\ events < budget
    /\ memoryAtReload' = [reloaded |-> TRUE,
                          current_player |-> currentPlayerIndex,
                          current_turn_number |-> turnCounter,
                          turn_elapsed_time |-> turnElapsedTime,
                          game_elapsed_time |-> gameElapsedTime,
                          total_elapsed_time |-> totalElapsedTime]
    /\ phase' = "Idle"
    /\ loadResult' = "none"
    /\ isRunning' = FALSE
    /\ turnCounter' = 1
    /\ turnElapsedTime' = 0
    /\ gameElapsedTime' = 0
    /\ totalElapsedTime' = 0
    /\ currentPlayerIndex' = 0
    /\ turns' = <<>>
    /\ turnVPs' = <<>>
    /\ turnVPsBy' = <<>>
    /\ UNCHANGED recordedBy
    /\ players' = <<>>
    /\ shouldUpdatePercentages' = TRUE
    /\ percentages' = [name \in {} |-> 0]
    /\ statsReturned' = [name \in {} |-> 0]
    /\ events' = events + 1
    /\ UNCHANGED <<variant, toggles, playerNames, setupPlayers, submitted, overlapped, calls,
                   saveResult, endTurnsDone, lastTurn, turnStartVP, dropped>>
    /\ UNCHANGED dbVars
    /\ NoTimePasses

\* ---- the game setup form (GameSetup) ----
\* players.map(p => p.color)
UsedColors(ps) == {ps[i].color : i \in 1..Len(ps)}

\* availableColors.length > 0 ? availableColors[0].value : playerColors[0].value
NextColor(ps) ==
    LET availableColors == (1..PaletteSize) \ UsedColors(ps)
    IN IF availableColors # {}
       THEN CHOOSE c \in availableColors : \A d \in availableColors : c <= d
       ELSE 1

handleAddPlayer ==
    /\ submitted = <<>>
    /\ events < budget
    /\ setupPlayers' = Append(setupPlayers, [name |-> "", color |-> NextColor(setupPlayers)])
    /\ events' = events + 1
    /\ UNCHANGED submitted
    /\ UNCHANGED sessionVars

\* the Remove button is rendered when players.length > 1
handleRemovePlayer(index) ==
    /\ submitted = <<>>
    /\ events < budget
    /\ Len(setupPlayers) > 1
    /\ index \in 1..Len(setupPlayers)
    /\ setupPlayers' = RemoveAt(setupPlayers, index)
    /\ events' = events + 1
    /\ UNCHANGED submitted
    /\ UNCHANGED sessionVars

\* updatePlayer(index, {name})
updatePlayerName(index, name) ==
    /\ submitted = <<>>
    /\ events < budget
    /\ index \in 1..Len(setupPlayers)
    /\ setupPlayers' = [setupPlayers EXCEPT ![index].name = name]
    /\ setupPlayers' # setupPlayers
    /\ events' = events + 1
    /\ UNCHANGED submitted
    /\ UNCHANGED sessionVars

\* updatePlayer(index, {color}): refused with an alert when another player has the color
updatePlayerColor(index, color) ==
    /\ submitted = <<>>
    /\ events < budget
    /\ index \in 1..Len(setupPlayers)
    /\ LET colorInUse == \E idx \in 1..Len(setupPlayers) :
                             setupPlayers[idx].color = color /\ idx # index
       IN setupPlayers' = IF colorInUse THEN setupPlayers
                          ELSE [setupPlayers EXCEPT ![index].color = color]
    /\ setupPlayers' # setupPlayers
    /\ events' = events + 1
    /\ UNCHANGED submitted
    /\ UNCHANGED sessionVars

\* handleSubmit: refused with an alert when the game name, the location or a player's
\* name is empty; otherwise stores the setup and calls onGameStart
handleSubmit(gameName, location) ==
    /\ submitted = <<>>
    /\ events < budget
    /\ ~(gameName = "" \/ location = "" \/ \E i \in 1..Len(setupPlayers) : setupPlayers[i].name = "")
    /\ submitted' = setupPlayers
    /\ events' = events + 1
    /\ UNCHANGED setupPlayers
    /\ UNCHANGED sessionVars

Next ==
    \/ \E outcome \in {"ok", "error", "empty"} : loadState(outcome)
    \/ \E i \in 1..MaxInflight, failed \in BOOLEAN : loadGameState(i, failed)
    \/ Tick
    \/ TotalTick
    \/ toggleTimer
    \/ \E v \in VPInputs \cup {0} : updatePlayerTurnVP(v)
    \/ handleAddVPLocal
    \/ handleAddVPDb
    \/ handleEndTurnLocal
    \/ handleEndTurnDb
    \/ \E i \in 1..MaxInflight, failed \in BOOLEAN : saveTurn(i, failed)
    \/ \E i \in 1..MaxInflight, failed \in BOOLEAN : updatePlayerTotalVP(i, failed)
    \/ \E i \in 1..MaxInflight, failed \in BOOLEAN : saveGameStats(i, failed)
    \/ handleEndGame
    \/ \E i \in 1..MaxInflight, failed \in BOOLEAN : saveGameData_game(i, failed)
    \/ \E i \in 1..MaxInflight, failed \in BOOLEAN, selectFailed \in BOOLEAN, permitted \in BOOLEAN :
           saveGameData_clearTurns(i, failed, selectFailed, permitted)
    \/ \E i \in 1..MaxInflight, failed \in BOOLEAN : saveGameData_insertTurns(i, failed)
    \/ \E i \in 1..MaxInflight, failedFor \in SUBSET (1..MaxPlayers), returnToSetup \in BOOLEAN :
           saveGameData_playerVPs(i, failedFor, returnToSetup)

\* ======================= the claims =======================
EndTurnsInFlight(cs) == {i \in 1..Len(cs) : cs[i].op \in {"endTurn", "load"}}

\* C1: while a session is active the current player index is within 0..playerCount-1
\* and equals the length of the Turn Ledger modulo playerCount.
C1_IndexIsLedgerLengthModN ==
    phase = "Active" =>
        /\ currentPlayerIndex \in 0..(playerCount - 1)
        /\ currentPlayerIndex = Len(turns) % playerCount

\* C2: after T ended turns the round counter has been incremented exactly
\* floor(T / playerCount) times (it starts at 1).
C2_RoundCounterIsFloor ==
    phase = "Active" => turnCounter = 1 + (endTurnsDone \div playerCount)

\* C3: every endTurn appends exactly one Turn Ledger entry {player, duration, deltas},
\* the deltas being those added during the turn followed by a non-zero pending VP.
C3_EndTurnAppendsEntry ==
    (phase = "Active" /\ endTurnsDone >= 1) =>
        /\ Len(turns) = endTurnsDone
        /\ turns[Len(turns)] = [player |-> lastTurn.player, duration |-> lastTurn.duration,
                                turnVPs |-> lastTurn.turnVPs]

\* C4: every player's totalVP is >= 0 in every reachable state, in memory and in the store.
C4_TotalVPNonNegative ==
    /\ \A i \in 1..Len(players) : players[i].totalVP >= 0
    /\ \A i \in 1..Len(dbTotalVP) : dbTotalVP[i] >= 0

\* C4 witness: a player at totalVP = 2 committed -5 and stands at 0, not -3.
C4_Witness ==
    /\ phase = "Active"
    /\ turnVPs = <<2, -5>>
    /\ players[currentPlayerIndex + 1].totalVP = 0

\* C5: the sum of the VP-delta list recorded for a turn equals the net change of the
\* player's totalVP over that turn.
C5_DeltaSumIsNetChange ==
    lastTurn.player # -1 => SumSeq(lastTurn.turnVPs) = lastTurn.net

\* C6: no state has running = true while some totalVP is at or above the victory threshold.
C6_AutoPause == ~(isRunning /\ hasWinner(players))

\* C6 witness: the timer was started, 30 VP were entered and added, and the commit
\* that reached the threshold left the session paused though nobody paused it.
C6_Witness ==
    /\ phase = "Active"
    /\ events = 3
    /\ turnVPs = <<30>>
    /\ players[currentPlayerIndex + 1].totalVP = VictoryThreshold
    /\ ~isRunning

\* C7: once endGame has reported success the session is Ended.
C7_SuccessMeansEnded == saveResult = "success" => phase = "Ended"

\* C8: after a successful endGame that closed the session the store holds one turn
\* record per ended turn and every player's final totalVP.
C8_StoreHoldsLedgerAndTotals ==
    (phase = "Ended" /\ calls = <<>>) =>
        /\ Len(dbTurns) = endTurnsDone
        /\ \A i \in 1..Len(players) : dbTotalVP[i] = players[i].totalVP

\* C9: no failed Persistence Gateway call goes unreported.
C9_NoFailureDropped == dropped = {}

\* C10: while the session is paused and neither an endTurn invoked earlier nor the
\* session's load is still pending,
\* no step commits a pending VP, appends to the ledger, or changes the index, the round
\* counter or the turn-elapsed time, and no endTurn starts.
C10_NoEndTurnWhilePaused ==
    [][(phase = "Active" /\ ~isRunning /\ EndTurnsInFlight(calls) = {}) =>
          /\ UNCHANGED <<currentPlayerIndex, turnCounter, turns, turnVPs, turnElapsedTime>>
          /\ \A i \in 1..Len(players) : players'[i].totalVP = players[i].totalVP
          /\ EndTurnsInFlight(calls') = {}]_vars

\* C10 witness: a paused session in its second turn whose current player has a
\* pending VP and elapsed turn time, i.e. an endTurn would have work to do.
C10_Witness ==
    /\ phase = "Active"
    /\ ~isRunning
    /\ calls = <<>>
    /\ endTurnsDone >= 1
    /\ turnElapsedTime > 0
    /\ players[currentPlayerIndex + 1].turnVP # 0

\* C11: a step that advances turn-elapsed or game-elapsed is a tick taken while
\* running and advances both by exactly 1000 ms; a step that advances total-elapsed
\* advances it by exactly 1000 ms, whatever the run state.
C11_ClockQuantum ==
    [][phase = "Active" =>
          /\ (turnElapsedTime' > turnElapsedTime \/ gameElapsedTime' > gameElapsedTime) =>
                 /\ isRunning
                 /\ turnElapsedTime' = turnElapsedTime + 1000
                 /\ gameElapsedTime' = gameElapsedTime + 1000
          /\ totalElapsedTime' > totalElapsedTime =>
                 totalElapsedTime' = totalElapsedTime + 1000]_vars

\* C11 witness: one tick while running moved turn and game time to 1000 ms, then the
\* session was paused and the always-on clock ticked twice: total 2000, the others still 1000.
C11_Witness ==
    /\ phase = "Active"
    /\ ~isRunning
    /\ turnElapsedTime = 1000
    /\ gameElapsedTime = 1000
    /\ totalElapsedTime = 2000

\* C12: the session is never running with 30 clock ticks gone by since the timer was
\* started and since the last autosave call to saveGameStats.
C12_AutosaveEvery30s == ~(isRunning /\ runTicksSinceSave * TickMs >= 30000)

\* C13: every endTurn invocation that runs to its end in an active session advances
\* the current player index by exactly one modulo the player count, and the round
\* counter goes up by one exactly when that step wraps the index to 0.
C13_EachEndTurnAdvancesByOne ==
    [][(phase = "Active" /\ endTurnsDone' = endTurnsDone + 1) =>
          /\ currentPlayerIndex' = (currentPlayerIndex + 1) % playerCount
          /\ turnCounter' = turnCounter + (IF currentPlayerIndex = playerCount - 1 THEN 1 ELSE 0)]_vars

\* C14 as stated: with 3 players, after exactly 7 turns ended one after the other
\* from a fresh session that has loaded, the round counter is 2 and the current player index is 1.
C14_SevenTurnsCounterTwo ==
    (phase = "Active" /\ playerCount = 3 /\ endTurnsDone = 7 /\ calls = <<>> /\ ~overlapped) =>
        (turnCounter = 2 /\ currentPlayerIndex = 1)

\* C14 amended: the round counter starts at 1, so after those 7 turns it is 3 (two
\* wraps of the index); the current player index is 1.
C14_SevenTurnsCounterThree ==
    (phase = "Active" /\ playerCount = 3 /\ endTurnsDone = 7 /\ calls = <<>> /\ ~overlapped) =>
        (turnCounter = 3 /\ currentPlayerIndex = 1)

\* C14 witness: 3 players, 7 turns ended one after the other in a loaded session, nothing in flight.
C14_Witness ==
    /\ phase = "Active"
    /\ playerCount = 3
    /\ endTurnsDone = 7
    /\ calls = <<>>
    /\ ~overlapped
    /\ turnCounter = 3
    /\ currentPlayerIndex = 1

\* C15: in an active session whose load has finished, a step either leaves the
\* in-memory Turn Ledger as it is or is the end of an endTurn that appends one entry
\* behind the entries already there, all of them unchanged and in place.
C15_LedgerAppendOnly ==
    [][(phase = "Active" /\ \A i \in 1..Len(calls) : calls[i].op # "load") =>
          \/ turns' = turns
          \/ /\ endTurnsDone' = endTurnsDone + 1
             /\ Len(turns') = Len(turns) + 1
             /\ SubSeq(turns', 1, Len(turns)) = turns]_vars

\* C15 witness: two turns were ended, pending VP was entered and committed, the timer
\* toggled, and the ledger holds the two entries in order.
C15_Witness ==
    /\ phase = "Active"
    /\ Len(turns) = 2
    /\ turns[1].player = 0
    /\ turns[1].turnVPs = <<2>>
    /\ turns[2].player = 1
    /\ endTurnsDone = 2

\* C16: the session becomes Active only with a non-empty player list; when the read
\* of the players failed or returned none, the controller is and stays Idle with no
\* players and running = false, and no step changes the turn, the clocks of the
\* game, the ledger, the scores or the store.
C16_FailedLoadStaysIdle ==
    [][/\ (phase = "Idle" /\ phase' = "Active") => (loadResult' = "loaded" /\ players' # <<>>)
       /\ loadResult' = "failed" => (phase' = "Idle" /\ players' = <<>> /\ ~isRunning')
       /\ loadResult = "failed" =>
              UNCHANGED <<phase, isRunning, turnCounter, turnElapsedTime, gameElapsedTime,
                          currentPlayerIndex, turns, turnVPs, players, calls, saveResult,
                          dbTurns, dbTotalVP, dbStats, dbGame>>]_vars

\* C16 witness: the read of the players failed, and a second later the component is
\* still Idle and empty (only the always-on clock has moved).
C16_Witness ==
    /\ loadResult = "failed"
    /\ phase = "Idle"
    /\ players = <<>>
    /\ totalElapsedTime = TickMs

\* C17: a saveTurn call that reaches the store with a list of k >= 1 deltas adds one
\* turns row carrying exactly those k deltas as its vp_changes rows, and returns no error.
C17_SaveTurnStoresAllDeltas ==
    [][\A i \in 1..Len(calls) :
          (/\ calls[i].pc = "saveTurn"
           /\ Len(calls[i].vps) >= 1
           /\ Len(calls') = Len(calls)
           /\ calls'[i].pc # "saveTurn"
           /\ events' = events) =>
              /\ Len(dbTurns') = Len(dbTurns) + 1
              /\ dbTurns'[Len(dbTurns')].vps = calls[i].vps
              /\ dropped' = dropped]_vars

\* C18: the player list handed to onGameStart has no two players of the same name.
C18_SubmittedNamesUnique ==
    \A i, j \in 1..Len(submitted) : i # j => submitted[i].name # submitted[j].name

\* C19: no two players of the setup form have the same color.
C19_SetupColorsUnique ==
    \A i, j \in 1..Len(setupPlayers) : i # j => setupPlayers[i].color # setupPlayers[j].color

\* r is sum / N rounded to the nearest integer, a tie going up
IsNearest(r, sum, N) == 2 * sum - N < 2 * N * r /\ 2 * N * r <= 2 * sum + N

\* C20: while the timer view is shown, each player's averageTurn is round(sum / N) over the
\* N >= 1 ledger entries of that player's turns and lastTurn is the duration of the latest
\* of them; both are 0 for a player without entries.
C20_StatsPerPlayer ==
    phase = "Active" =>
        /\ ~playerStatsThrows
        /\ \A p \in 1..Len(players) :
              LET own == SelectSeq(turns, LAMBDA t : t.player = p - 1)
                  N == Len(own)
                  sum == SumSeq([j \in 1..N |-> own[j].duration])
                  stat == playerStats[playerNames[p]]
              IN IF N >= 1
                 THEN IsNearest(stat.averageTurn, sum, N) /\ stat.lastTurn = own[N].duration
                 ELSE stat.averageTurn = 0 /\ stat.lastTurn = 0

\* C21: the statistics the useMemo returned when it last ran (last, average, total, turn
\* count and percentage of every player) are the statistics it returns when it runs once
\* more on the state that run left behind, with the same ledger and the same players.
C21_RecomputeIdempotent ==
    (phase = "Active" /\ Mounted) => playerStatsReturned = statsReturned

\* C21 witness: a recompute has stored shares of 50 and 50 for two players with a turn each.
C21_Witness ==
    /\ phase = "Active"
    /\ Mounted
    /\ Len(turns) = 2
    /\ ~shouldUpdatePercentages
    /\ \A name \in DOMAIN statsReturned : statsReturned[name].percentage = 50

\* the durations of the ledger entries, all of them and those under one player name
LedgerTotal == SumSeq([j \in 1..Len(turns) |-> turns[j].duration])
NameTotal(name) ==
    LET own == SelectSeq(turns, LAMBDA t : playerNames[t.player + 1] = name)
    IN SumSeq([j \in 1..Len(own) |-> own[j].duration])

\* a step of one of the two clocks
ClockStep ==
    /\ calls' = calls
    /\ gameElapsedTime' # gameElapsedTime \/ totalElapsedTime' # totalElapsedTime

\* a turn commit, a pause by the toggle, or the game end
TriggerStep ==
    \/ Len(turns') = Len(turns) + 1
    \/ endTurnsDone' = endTurnsDone + 1
    \/ isRunning /\ ~isRunning' /\ players' = players /\ calls' = calls
    \/ Len(calls') = Len(calls) + 1 /\ calls'[Len(calls')].op = "endGame"

\* C22: a clock tick with no recompute pending leaves the stored percentages as they are,
\* the stored percentages change at no step other than a turn commit, a pause or the game
\* end, and after such a step (some ledger entry having a duration) the flag is cleared
\* and every player's stored percentage is round(total of the player's durations / total
\* of all durations * 100).
C22_PercentagesAtTriggersOnly ==
    [][(phase = "Active" /\ Mounted /\ Mounted') =>
          /\ (ClockStep /\ ~shouldUpdatePercentages) => percentages' = percentages
          /\ percentages' # percentages => TriggerStep
          /\ (TriggerStep /\ phase' = "Active" /\ LedgerTotal' > 0) =>
                /\ ~shouldUpdatePercentages'
                /\ \A i \in 1..Len(players') :
                      /\ playerNames[i] \in DOMAIN percentages'
                      /\ IsNearest(percentages'[playerNames[i]],
                                   100 * NameTotal(playerNames[i])', LedgerTotal')]_vars

\* C22 witness: the first turn's commit stored 100 and 0, a tick and a pause followed.
C22_Witness ==
    /\ phase = "Active"
    /\ Mounted
    /\ Len(turns) = 1
    /\ gameElapsedTime = 2 * TickMs
    /\ ~isRunning
    /\ ~shouldUpdatePercentages
    /\ Len(players) = 2
    /\ percentages = [name \in {playerNames[1], playerNames[2]} |->
                         IF name = playerNames[1] THEN 100 ELSE 0]

\* what toggleTimer leaves alone, and the recompute mark: set when the timer was running
\* (and consumed by the render that follows once the game clock has run), else untouched
ToggleFrame ==
    /\ shouldUpdatePercentages' = IF isRunning THEN gameElapsedTime = 0
                                               ELSE shouldUpdatePercentages
    /\ UNCHANGED <<turnElapsedTime, gameElapsedTime, totalElapsedTime, players, turns,
                   turnVPs, currentPlayerIndex, turnCounter>>

\* C23 as stated: every toggleTimer flips isRunning, marks the stats for recompute exactly
\* when the timer was running, and changes no clock, player, ledger entry, index or round
\* counter.
C23_ToggleFlips ==
    [][toggles' = toggles + 1 => (isRunning' = ~isRunning /\ ToggleFrame)]_vars

\* C23 amended: as stated, except that a toggle while some player's totalVP is at or
\* above the threshold leaves isRunning false.
C23_ToggleFlipsUnlessWon ==
    [][toggles' = toggles + 1 =>
          /\ isRunning' = (IF hasWinner(players) THEN FALSE ELSE ~isRunning)
          /\ ToggleFrame]_vars

\* C23 witness: a toggle was made while the timer ran with gameElapsedTime = 0
\* and the flag clear, and set the flag; and one in a session that has a winner.
C23_Witness ==
    /\ toggles >= 2
    /\ phase = "Active"
    /\ ~isRunning
    /\ gameElapsedTime = 0
    /\ shouldUpdatePercentages
    /\ totalElapsedTime = 0
    /\ hasWinner(players)

NoZeroEntry(deltas) == \A k \in 1..Len(deltas) : deltas[k] # 0

C25_TimeConservation ==
    (phase = "Active" /\ Mounted) => gameElapsedTime = turnElapsedTime + LedgerTotal

\* some player's total has reached the victory threshold
ThresholdReached == \E i \in 1..Len(players) : players[i].totalVP >= VictoryThreshold

\* C26: once some player's totalVP is at or above the threshold, the timer is not running
\* after any step (a toggle included), the turn and game clocks do not advance, and no
\* player's totalVP changes, so the threshold stays reached.
C26_NeverRunsAgain ==
    [][(phase = "Active" /\ ThresholdReached) =>
          /\ ~isRunning'
          /\ turnElapsedTime' <= turnElapsedTime
          /\ gameElapsedTime' <= gameElapsedTime
          /\ Len(players') = Len(players)
          /\ \A i \in 1..Len(players) : players'[i].totalVP = players[i].totalVP]_vars

\* C26 witness: the second player has reached the threshold and the timer was toggled after that.
C26_Witness ==
    /\ phase = "Active"
    /\ Len(players) = 2
    /\ players[1].totalVP = 0
    /\ players[2].totalVP = VictoryThreshold
    /\ toggles = 2
    /\ ~isRunning

\* C27: when saveGameData returns false, every turns row the store held when it was
\* called is still held.
C27_FailedSaveKeepsTurns ==
    [][\A i \in 1..Len(calls) :
          (calls[i].op = "endGame" /\ calls' = RemoveAt(calls, i) /\ saveResult' = "failed") =>
              \A j \in 1..Len(calls[i].stored) :
                  \E k \in 1..Len(dbTurns') : dbTurns'[k] = calls[i].stored[j]]_vars

\* C28: when the load of a reloaded session returns, and the store held at the reload the
\* game_stats row of the state in memory (the last End Turn had persisted it), the session
\* has the current player, the round counter and the three clocks it had before the reload.
C28_ReloadRestores ==
    [][\A i \in 1..Len(calls) :
          (/\ calls[i].op = "load"
           /\ calls' = RemoveAt(calls, i)
           /\ events' = events
           /\ phase = "Active"
           /\ memoryAtReload.reloaded
           /\ dbStats = [x \in DOMAIN dbStats |-> memoryAtReload[x]]) =>
              StatsInMemory' = dbStats]_vars

\* C29: in a running session every player other than the current one has no pending VP
\* (turnVP = 0), and a step of the session leaves the totalVP and turnVP of every player
\* other than the current one as they were.
OthersUntouched ==
    (phase = "Active" /\ phase' = "Active" /\ Len(players') = Len(players)) =>
        \A p \in 1..Len(players) : p # currentPlayerIndex + 1 => players'[p] = players[p]

OthersHoldNothing ==
    (phase = "Active" /\ Mounted) =>
        \A p \in 1..Len(players) : p # currentPlayerIndex + 1 => players[p].turnVP = 0

C29_OnlyCurrentPending == []OthersHoldNothing /\ [][OthersUntouched]_vars

\* C30: a step that changes the current player leaves the list of deltas of the turn in
\* progress empty, and every delta of the list that an End Turn recorded was committed by
\* the player of the recorded turn during that turn.
EmptiedOnChange == currentPlayerIndex' # currentPlayerIndex => turnVPs' = <<>>

OwnDeltasOnly(rec) ==
    \A k \in 1..Len(rec.by) : rec.by[k] = [player |-> rec.player, turn |-> rec.turn]

C30_TurnDeltasOwn ==
    /\ [](OwnDeltasOnly(recordedBy) /\ Len(turnVPsBy) = Len(turnVPs))
    /\ [][EmptiedOnChange]_vars

\* an Add VP between the click of an End Turn and its return, in a turn after the first
C30_Witness ==
    /\ variant = "db"
    /\ endTurnsDone >= 1
    /\ \E i \in 1..Len(calls) :
          /\ calls[i].op = "endTurn"
          /\ Len(turnVPs) > Len(recordedBy.by)
    /\ \E i \in 1..Len(calls) : calls[i].op = "addVP"

\* no recompute is left pending by a render
NoPendingRecompute == ~(Mounted /\ shouldUpdatePercentages /\ gameElapsedTime > 0)

Spec == Init /\ [][Next]_vars

\* the clocks alone, over a span longer than the autosave period
InitAutosave == \E n \in 1..MaxPlayers : InitWith(n, MaxClockEvents)

NextAutosave ==
    \/ \E outcome \in {"ok", "error", "empty"} : loadState(outcome)
    \/ \E i \in 1..MaxInflight, failed \in BOOLEAN : loadGameState(i, failed)
    \/ toggleTimer
    \/ Tick
    \/ TotalTick

SpecAutosave == InitAutosave /\ [][NextAutosave]_vars

\* the game setup form on its own
InitSetup == InitWith(1, MaxSetupEvents)

NextSetup ==
    \/ handleAddPlayer
    \/ \E index \in 1..MaxEditedPlayers : handleRemovePlayer(index)
    \/ \E index \in 1..MaxEditedPlayers, name \in SetupNames \cup {""} : updatePlayerName(index, name)
    \/ \E index \in 1..MaxEditedPlayers, color \in ColorInputs : updatePlayerColor(index, color)
    \/ \E gameName \in {"", "g"}, location \in {"", "l"} : handleSubmit(gameName, location)

SpecSetup == InitSetup /\ [][NextSetup]_vars

\* sessions that build a ledger, for players of any names the setup form lets through
InitStats == \E n \in 1..MaxPlayers : \E names \in [1..n -> SetupNames] : InitNamed(names, MaxStatsEvents)

NextStats ==
    \/ \E outcome \in {"ok", "error", "empty"} : loadState(outcome)
    \/ \E i \in 1..MaxInflight, failed \in BOOLEAN : loadGameState(i, failed)
    \/ toggleTimer
    \/ Tick
    \/ \E v \in VPInputs \cup {0} : updatePlayerTurnVP(v)
    \/ handleEndTurnLocal
    \/ handleEndTurnDb
    \/ \E i \in 1..MaxInflight, failed \in BOOLEAN : saveTurn(i, failed)
    \/ \E i \in 1..MaxInflight, failed \in BOOLEAN : updatePlayerTotalVP(i, failed)
    \/ \E i \in 1..MaxInflight, failed \in BOOLEAN : saveGameStats(i, failed)

SpecStats == InitStats /\ [][NextStats]_vars

\* sessions of the Supabase-backed timer that are reloaded
InitReload == \E n \in 1..MaxPlayers : InitWith(n, MaxReloadEvents)

NextReload ==
    \/ \E outcome \in {"ok", "error", "empty"} : loadState(outcome)
    \/ \E i \in 1..MaxInflight, failed \in BOOLEAN : loadGameState(i, failed)
    \/ toggleTimer
    \/ Tick
    \/ handleEndTurnDb
    \/ \E i \in 1..MaxInflight, failed \in BOOLEAN : saveGameStats(i, failed)
    \/ reload

SpecReload == InitReload /\ [][NextReload]_vars

\* turns ended in rotation, with up to MaxRoundPlayers players
InitRounds == \E n \in 1..MaxRoundPlayers : InitWith(n, MaxRoundEvents)

NextRounds ==
    \/ \E outcome \in {"ok", "error", "empty"} : loadState(outcome)
    \/ \E i \in 1..MaxInflight, failed \in BOOLEAN : loadGameState(i, failed)
    \/ toggleTimer
    \/ handleEndTurnLocal
    \/ handleEndTurnDb
    \/ \E i \in 1..MaxInflight, failed \in BOOLEAN : saveGameStats(i, failed)

SpecRounds == InitRounds /\ [][NextRounds]_vars
====
